---- MODULE Spec2Model ----
(***************************************************************************)
(* Entity validator of packages/strapi/lib/services/entity-validator.      *)
(* A call of validateEntityCreation / validateEntityUpdate builds a yup    *)
(* validator tree from a content-type schema and the record, then runs it  *)
(* with abortEarly disabled.  JSON values, attribute descriptors and yup   *)
(* schema nodes are modelled as records; the builders are the operators    *)
(* that carry the names of the functions of index.js.                      *)
(***************************************************************************)
EXTENDS Integers, Sequences, FiniteSets, TLC

VARIABLES pc, createOrUpdate, model, data, isDraft, validator, caught, result, errors, outcome

vars == <<pc, createOrUpdate, model, data, isDraft, validator, caught, result, errors, outcome>>

(* ------------------------------ bounds --------------------------------- *)
\* longest array a record carries
MaxLen == 1
\* levels of component records nested below the entries of the top-level record
MaxDepth == 1
\* number of nested createModelValidator frames the call stack can hold
StackLimit == 6

(* --------------------------- JSON values ------------------------------- *)
Undefined == [t |-> "undefined"]
Null == [t |-> "null"]
Str(s) == [t |-> "string", s |-> s]
Num(n) == [t |-> "number", n |-> n]
Arr(a) == [t |-> "array", a |-> a]
Obj(o) == [t |-> "object", o |-> o]
Thrown(e) == [t |-> "throw", e |-> e]

EmptyMap == [k \in {} |-> Undefined]

\* _.get(data, attrName)
Get(v, k) == IF v.t = "object" /\ k \in DOMAIN v.o THEN v.o[k] ELSE Undefined

\* Array.isArray(data)
IsArray(v) == v.t = "array"

\* Number.isInteger(x)
IsInteger(v) == v.t = "number"

\* _.isNil(value)
IsNil(v) == v.t \in {"undefined", "null"}

(* ----------------------- attribute descriptors ------------------------- *)
\* a descriptor with every optional key absent (falsy)
Attr == [type |-> "", required |-> FALSE, default |-> Undefined, min |-> Undefined,
         max |-> Undefined, repeatable |-> FALSE, component |-> "", model |-> "",
         collection |-> "", plugin |-> ""]

StringAttr(required, default) ==
    [Attr EXCEPT !.type = "string", !.required = required, !.default = default]

ComponentAttr(component, repeatable, required, min, max) ==
    [Attr EXCEPT !.type = "component", !.component = component, !.repeatable = repeatable,
                 !.required = required, !.min = min, !.max = max]

DzAttr(required, min, max) ==
    [Attr EXCEPT !.type = "dynamiczone", !.required = required, !.min = min, !.max = max]

RelationAttr(target, plugin, required) ==
    [Attr EXCEPT !.model = target, !.plugin = plugin, !.required = required]

MediaAttr(required) ==
    [Attr EXCEPT !.model = "file", !.plugin = "upload", !.required = required]

(* --------------------------- schema registry --------------------------- *)
NoModel == [uid |-> "", attributes |-> EmptyMap, nonWritable |-> {}]

\* truthiness of a resolved schema
IsModel(m) == m.uid # ""

CreatedBy == "created_by" :> RelationAttr("user", "admin", TRUE)

\* strapi.components
components ==
    "c.leaf" :> [uid |-> "c.leaf",
                 attributes |-> ("name" :> StringAttr(TRUE, Undefined)) @@ CreatedBy,
                 nonWritable |-> {"id", "created_by"}]
 @@ "c.rec"  :> [uid |-> "c.rec",
                 attributes |-> ("items" :> ComponentAttr("c.rec", TRUE, FALSE, Undefined, Undefined)),
                 nonWritable |-> {"id"}]
 @@ "c.self" :> [uid |-> "c.self",
                 attributes |-> ("child" :> ComponentAttr("c.self", FALSE, FALSE, Undefined, Undefined)),
                 nonWritable |-> {"id"}]
 @@ "c.bad"  :> [uid |-> "c.bad",
                 attributes |-> ("x" :> ComponentAttr("c.missing", FALSE, FALSE, Undefined, Undefined)),
                 nonWritable |-> {"id"}]

\* strapi.models
models ==
    "article" :> [uid |-> "article",
                  attributes |-> ("title" :> StringAttr(TRUE, Undefined))
                              @@ ("name" :> StringAttr(TRUE, Str("x")))
                              @@ ("summary" :> StringAttr(FALSE, Str("s")))
                              @@ CreatedBy,
                  nonWritable |-> {"id", "created_by"}]
 @@ "gallery" :> [uid |-> "gallery",
                  attributes |-> ("cover" :> MediaAttr(TRUE))
                              @@ ("author" :> RelationAttr("user", "", TRUE))
                              @@ ("related" :> [Attr EXCEPT !.collection = "article"])
                              @@ ("extra" :> [Attr EXCEPT !.type = "custom", !.required = TRUE]),
                  nonWritable |-> {"id"}]
 @@ "widget"  :> [uid |-> "widget",
                  attributes |-> ("seo" :> ComponentAttr("c.leaf", FALSE, TRUE, Undefined, Undefined))
                              @@ ("opt" :> ComponentAttr("c.leaf", FALSE, FALSE, Undefined, Undefined)),
                  nonWritable |-> {"id"}]
 @@ "page"    :> [uid |-> "page",
                  attributes |-> ("tags" :> ComponentAttr("c.leaf", TRUE, FALSE, Num(1), Undefined)),
                  nonWritable |-> {"id"}]
 @@ "list"    :> [uid |-> "list",
                  attributes |-> ("parts" :> ComponentAttr("c.leaf", TRUE, TRUE, Num(2), Undefined)),
                  nonWritable |-> {"id"}]
 @@ "bag"     :> [uid |-> "bag",
                  attributes |-> ("stuff" :> ComponentAttr("c.leaf", TRUE, FALSE, Num(2), Num(2))),
                  nonWritable |-> {"id"}]
 @@ "zone"    :> [uid |-> "zone",
                  attributes |-> ("body" :> DzAttr(TRUE, Undefined, Undefined)),
                  nonWritable |-> {"id"}]
 @@ "zone2"   :> [uid |-> "zone2",
                  attributes |-> ("blocks" :> DzAttr(FALSE, Num(2), Undefined)),
                  nonWritable |-> {"id"}]
 @@ "tree"    :> [uid |-> "tree",
                  attributes |-> ("root" :> ComponentAttr("c.rec", TRUE, FALSE, Undefined, Undefined)),
                  nonWritable |-> {"id"}]
 @@ "loop"    :> [uid |-> "loop",
                  attributes |-> ("child" :> ComponentAttr("c.self", FALSE, FALSE, Undefined, Undefined)),
                  nonWritable |-> {"id"}]
 @@ "broken"  :> [uid |-> "broken",
                  attributes |-> ("x" :> ComponentAttr("c.missing", FALSE, FALSE, Undefined, Undefined)),
                  nonWritable |-> {"id"}]
 @@ "broken2" :> [uid |-> "broken2",
                  attributes |-> ("list" :> ComponentAttr("c.bad", TRUE, FALSE, Undefined, Undefined)),
                  nonWritable |-> {"id"}]

\* strapi.db.getModelsByAttribute(attr)[0]
getModelsByAttribute(attr) ==
    IF attr.component \in DOMAIN components THEN components[attr.component] ELSE NoModel

\* contentTypesUtils.getNonWritableAttributes(model)
getNonWritableAttributes(m) == m.nonWritable

\* strapi.getModel(uid): a content type or a component, absent when unknown
getModel(name) ==
    LET key == IF name.t = "string" THEN name.s
               ELSE IF name.t = "number" THEN ToString(name.n) ELSE ""
    IN  IF key \in DOMAIN models THEN models[key]
        ELSE IF key \in DOMAIN components THEN components[key] ELSE NoModel

(* ------------------------- yup schema nodes ---------------------------- *)
NoInner == [lazy |-> "none"]

yupNode(type) ==
    [type |-> type, nullable |-> FALSE, tests |-> {}, min |-> Undefined, max |-> Undefined,
     hasDefault |-> FALSE, default |-> Undefined, preventCast |-> FALSE,
     hasWhitelist |-> FALSE, whitelist |-> {}, fields |-> EmptyMap, of |-> NoInner]

\* a construction that threw instead of returning a schema node
ThrowNode(e) == [type |-> "throw", error |-> e]
IsThrow(v) == v.type = "throw"

yupMixed == yupNode("mixed")
yupString == yupNode("string")
yupArray(inner) == [yupNode("array") EXCEPT !.of = inner]
yupObject(shape) == [yupNode("object") EXCEPT !.fields = shape]

\* schema.test(name, ...)
addTest(v, name) == IF IsThrow(v) THEN v ELSE [v EXCEPT !.tests = @ \cup {name}]

\* strapi-utils: yup.mixed.notNil / yup.mixed.notNull
notNil(v) == addTest(v, "notNil")
notNull(v) == addTest(v, "notNull")
required(v) == addTest(v, "required")
nullable(v) == IF IsThrow(v) THEN v ELSE [v EXCEPT !.nullable = TRUE]
oneOf(v, names) == IF IsThrow(v) THEN v ELSE [v EXCEPT !.hasWhitelist = TRUE, !.whitelist = names]
setMin(v, n) == IF IsThrow(v) THEN v ELSE [v EXCEPT !.min = n]
setMax(v, n) == IF IsThrow(v) THEN v ELSE [v EXCEPT !.max = n]
setDefault(v, d) == IF IsThrow(v) THEN v ELSE [v EXCEPT !.hasDefault = TRUE, !.default = d]

\* schema.concat(other): other's fields win, the tests of both are kept
concat(a, b) ==
    IF IsThrow(a) THEN a ELSE IF IsThrow(b) THEN b
    ELSE [a EXCEPT !.fields = b.fields @@ a.fields, !.tests = a.tests \cup b.tests,
                   !.nullable = a.nullable \/ b.nullable]

\* the leaf validator registry ./validators, keyed by primitive type name
validatorTypes == {"string"}
validators(type, attr, draft) == [yupString EXCEPT !.preventCast = TRUE]

(* ------------------------- modifier pipeline --------------------------- *)
isMedia(attr) ==
    (IF attr.collection # "" THEN attr.collection ELSE attr.model) = "file" /\ attr.plugin = "upload"

isSimpleAttribute(attr) ==
    attr.collection = "" /\ attr.model = "" /\ attr.type # "component" /\ attr.type # "dynamiczone"

\* addMinMax with the minimum set whenever it is an integer
addMinMaxUngated(attr, v, d) ==
    LET v1 == IF IsInteger(attr.min) THEN setMin(v, attr.min) ELSE v
    IN  IF IsInteger(attr.max) THEN setMax(v1, attr.max) ELSE v1

addMinMax(attr, v, d) ==
    LET v1 == IF IsInteger(attr.min) /\ (attr.required \/ (IsArray(d) /\ Len(d.a) > 0))
              THEN setMin(v, attr.min) ELSE v
    IN  IF IsInteger(attr.max) THEN setMax(v1, attr.max) ELSE v1

\* addRequiredValidation demanding presence in update mode too
addRequiredValidationNotNil(mode, req, v) ==
    IF req THEN notNil(v) ELSE nullable(v)

addRequiredValidation(mode, req, v) ==
    IF req
    THEN IF mode = "creation" THEN notNil(v)
         ELSE IF mode = "update" THEN notNull(v) ELSE v
    ELSE nullable(v)

\* addDefault keeping the declared default in update mode
addDefaultInUpdate(mode, attr, v) ==
    IF ((attr.type = "component" /\ attr.repeatable) \/ attr.type = "dynamiczone") /\ ~attr.required
    THEN setDefault(v, Arr(<<>>))
    ELSE setDefault(v, attr.default)

addDefault(mode, attr, v) ==
    IF mode = "creation"
    THEN IF ((attr.type = "component" /\ attr.repeatable) \/ attr.type = "dynamiczone")
            /\ ~attr.required
         THEN setDefault(v, Arr(<<>>))
         ELSE setDefault(v, attr.default)
    ELSE setDefault(v, Undefined)

preventCast(v) == IF IsThrow(v) THEN v ELSE [v EXCEPT !.preventCast = TRUE]

(* ------------------------- category validators ------------------------- *)
RECURSIVE createModelValidator(_, _, _, _, _)

\* createComponentValidator without the check of the resolved model
createComponentValidatorUnchecked(mode, attr, d, draft, depth) ==
    LET m == getModelsByAttribute(attr)
    IN  IF attr.repeatable
        THEN addMinMax(attr,
                 addRequiredValidation(mode, TRUE,
                     yupArray([lazy |-> "component", model |-> m, depth |-> depth + 1])),
                 d)
        ELSE addRequiredValidation(mode, ~draft /\ attr.required,
                 createModelValidator(mode, m, d, draft, depth + 1))

createComponentValidator(mode, attr, d, draft, depth) ==
    LET m == getModelsByAttribute(attr)
    IN  IF ~IsModel(m)
        THEN ThrowNode("Error")
        ELSE IF attr.repeatable
             THEN addMinMax(attr,
                      addRequiredValidation(mode, TRUE,
                          yupArray([lazy |-> "component", model |-> m, depth |-> depth + 1])),
                      d)
             ELSE addRequiredValidation(mode, ~draft /\ attr.required,
                      createModelValidator(mode, m, d, draft, depth + 1))

\* createDzValidator taking the requiredness of the array from the descriptor
createDzValidatorOwnRequired(mode, attr, d, draft, depth) ==
    addMinMax(attr,
        addRequiredValidation(mode, ~draft /\ attr.required,
            yupArray([lazy |-> "dz", depth |-> depth + 1])),
        d)

createDzValidator(mode, attr, d, draft, depth) ==
    addMinMax(attr,
        addRequiredValidation(mode, TRUE, yupArray([lazy |-> "dz", depth |-> depth + 1])),
        d)

createRelationValidator(mode, attr, d, draft) ==
    addRequiredValidation(mode, ~draft /\ attr.required,
        IF IsArray(d) THEN yupArray([lazy |-> "mixed"]) ELSE yupMixed)

\* createSimpleAttributeValidator ignoring the draft flag
createSimpleAttributeValidatorNoDraft(mode, attr, draft) ==
    addRequiredValidation(mode, attr.required,
        IF attr.type \in validatorTypes THEN validators(attr.type, attr, draft) ELSE yupMixed)

createSimpleAttributeValidator(mode, attr, draft) ==
    addRequiredValidation(mode, ~draft /\ attr.required,
        IF attr.type \in validatorTypes THEN validators(attr.type, attr, draft) ELSE yupMixed)

createAttributeValidator(mode, attr, d, draft, depth) ==
    addDefault(mode, attr,
        IF isMedia(attr) THEN yupMixed
        ELSE IF isSimpleAttribute(attr) THEN createSimpleAttributeValidator(mode, attr, draft)
        ELSE preventCast(
                IF attr.type = "component" THEN createComponentValidator(mode, attr, d, draft, depth)
                ELSE IF attr.type = "dynamiczone" THEN createDzValidator(mode, attr, d, draft, depth)
                ELSE createRelationValidator(mode, attr, d, draft)))

\* yup.object().shape(validators); building one of the validators may have thrown
objectShape(shape) ==
    IF \E a \in DOMAIN shape : IsThrow(shape[a])
    THEN shape[CHOOSE a \in DOMAIN shape : IsThrow(shape[a])]
    ELSE yupObject(shape)

\* createModelValidator without the filter on the non-writable attributes
createModelValidatorUnfiltered(mode, m, d, draft, depth) ==
    IF depth > StackLimit
    THEN ThrowNode("RangeError")
    ELSE objectShape([a \in DOMAIN m.attributes |->
                         createAttributeValidator(mode, m.attributes[a], Get(d, a), draft, depth)])

createModelValidator(mode, m, d, draft, depth) ==
    IF depth > StackLimit
    THEN ThrowNode("RangeError")
    ELSE objectShape([a \in DOMAIN m.attributes \ getNonWritableAttributes(m) |->
                         createAttributeValidator(mode, m.attributes[a], Get(d, a), draft, depth)])

\* the element schema of a repeatable component: the lazy of createComponentValidator
componentItem(inner, item, ctx) ==
    notNull(createModelValidator(ctx.mode, inner.model, item, ctx.draft, inner.depth))

\* the lazy of createDzValidator without the membership test on the discriminator
dzItemAnyDiscriminator(inner, item, ctx) ==
    LET m == getModel(Get(item, "__component"))
        schema == notNull(yupObject("__component" :> required(yupString)))
    IN  IF IsModel(m)
        THEN concat(schema, createModelValidator(ctx.mode, m, item, ctx.draft, inner.depth))
        ELSE schema

\* the element schema of a dynamic zone: the lazy of createDzValidator
dzItem(inner, item, ctx) ==
    LET m == getModel(Get(item, "__component"))
        schema == notNull(yupObject(
                     "__component" :> oneOf(required(yupString), DOMAIN components)))
    IN  IF IsModel(m)
        THEN concat(schema, createModelValidator(ctx.mode, m, item, ctx.draft, inner.depth))
        ELSE schema

\* the element schema an array node resolves to for one item
resolveLazy(inner, item, ctx) ==
    IF inner.lazy = "component" THEN componentItem(inner, item, ctx)
    ELSE IF inner.lazy = "dz" THEN dzItem(inner, item, ctx)
    ELSE yupMixed

(* ------------------------- yup cast and validate ----------------------- *)
RECURSIVE joinStrings(_)
\* Array.prototype.toString of an array of strings
joinStrings(q) ==
    IF Len(q) = 0 THEN "" ELSE IF Len(q) = 1 THEN q[1] ELSE q[1] \o "," \o joinStrings(Tail(q))

RECURSIVE toStr(_)
\* value.toString()
toStr(v) ==
    IF v.t = "string" THEN v.s
    ELSE IF v.t = "number" THEN ToString(v.n)
    ELSE IF v.t = "array" THEN joinStrings([i \in 1..Len(v.a) |-> IF IsNil(v.a[i]) THEN "" ELSE toStr(v.a[i])])
    ELSE "[object Object]"

\* the transform a schema type installs by default
coerce(type, v) ==
    IF type = "string" THEN (IF v.t \in {"string", "null"} THEN v ELSE Str(toStr(v)))
    ELSE IF type = "object" THEN (IF v.t = "object" THEN v ELSE Null)
    ELSE IF type = "array" THEN (IF v.t = "array" THEN v ELSE Null)
    ELSE v

\* schema._typeCheck(v)
typeCheck(type, v) == type = "mixed" \/ v.t = type

\* schema.isType(v)
isType(node, v) == (node.nullable /\ v.t = "null") \/ typeCheck(node.type, v)

\* the value after the node's own transform: none when the cast is prevented
transformed(node, value) == IF node.preventCast THEN value ELSE coerce(node.type, value)

\* the object of the cast children, without the keys that came out undefined; a child that
\* threw ends the cast
castObject(fv) ==
    IF \E p \in DOMAIN fv : fv[p].t = "throw"
    THEN fv[CHOOSE p \in DOMAIN fv : fv[p].t = "throw"]
    ELSE Obj([p \in {q \in DOMAIN fv : fv[q].t # "undefined"} |-> fv[p]])

\* the array of the cast items; an item that threw ends the cast
castArray(cv) ==
    IF \E i \in 1..Len(cv) : cv[i].t = "throw"
    THEN cv[CHOOSE i \in 1..Len(cv) : cv[i].t = "throw"]
    ELSE Arr(cv)

RECURSIVE cast(_, _, _)
\* schema.cast(value): transforms, defaults, then the children of objects and arrays
cast(node, value, ctx) ==
    IF IsThrow(node) THEN Thrown(node.error)
    ELSE IF value.t = "undefined"
    THEN (IF node.hasDefault THEN node.default ELSE Undefined)
    ELSE IF node.type = "object" /\ transformed(node, value).t = "object"
    THEN castObject([p \in DOMAIN node.fields \cup DOMAIN value.o |->
                        IF p \in DOMAIN node.fields
                        THEN cast(node.fields[p], Get(value, p), ctx) ELSE value.o[p]])
    ELSE IF node.type = "array" /\ transformed(node, value).t = "array" /\ node.of.lazy # "none"
    THEN castArray([i \in 1..Len(value.a) |->
                       cast(resolveLazy(node.of, value.a[i], ctx), value.a[i], ctx)])
    ELSE transformed(node, value)

\* whether one named test of a node accepts the value
testPasses(node, name, v) ==
    IF name = "notNil" THEN ~IsNil(v)
    ELSE IF name = "notNull" THEN v.t # "null"
    ELSE IF name = "required" THEN ~IsNil(v) /\ (v.t = "string" => v.s # "")
    ELSE TRUE

Err(path, type) == [path |-> path, type |-> type]

\* the errors the node itself raises: the type and whitelist checks first, the tests only when those pass
ownErrors(node, v, path) ==
    LET typeError == IF v.t # "undefined" /\ ~isType(node, v) THEN {Err(path, "typeError")} ELSE {}
        whitelistError == IF node.hasWhitelist /\ v.t # "undefined"
                             /\ ~(v.t = "string" /\ v.s \in node.whitelist)
                          THEN {Err(path, "oneOf")} ELSE {}
        failing == {Err(path, n) : n \in {n \in node.tests : ~testPasses(node, n, v)}}
        minError == IF IsInteger(node.min) /\ v.t = "array" /\ Len(v.a) < node.min.n
                    THEN {Err(path, "min")} ELSE {}
        maxError == IF IsInteger(node.max) /\ v.t = "array" /\ Len(v.a) > node.max.n
                    THEN {Err(path, "max")} ELSE {}
    IN  IF typeError \cup whitelistError # {}
        THEN typeError \cup whitelistError
        ELSE failing \cup minError \cup maxError

RECURSIVE validate(_, _, _, _)
\* schema.validate(value, {strict: true, abortEarly: false}) on a value already cast
validate(node, v, path, ctx) ==
    IF IsThrow(node) THEN {Err(<<>>, node.error)}
    ELSE ownErrors(node, v, path)
         \cup (IF node.type = "object" /\ v.t = "object"
               THEN UNION {validate(node.fields[k], Get(v, k), Append(path, k), ctx) : k \in DOMAIN node.fields}
               ELSE IF node.type = "array" /\ v.t = "array" /\ node.of.lazy # "none"
               THEN UNION {validate(resolveLazy(node.of, v.a[i], ctx), v.a[i],
                                    Append(path, ToString(i - 1)), ctx) : i \in 1..Len(v.a)}
               ELSE {})


\* the options with abortEarly left at the library's default
validateOptionsAbortEarly == [abortEarly |-> TRUE]

\* the options of the validate call
validateOptions == [abortEarly |-> FALSE]

\* strapi-utils formatYupErrors: the entries keyed by path; a failure without inner errors is no
\* yup ValidationError and makes the formatter itself throw
formatYupErrors(e, inner) ==
    IF e = "ValidationError"
    THEN [kind |-> "badRequest", message |-> "ValidationError", errors |-> {x.path : x \in inner}]
    ELSE [kind |-> "Error", message |-> "invalid.input", errors |-> {}]

(* ------------------------------ records -------------------------------- *)
SeqsUpTo(S, n) == UNION {[1..k -> S] : k \in 0..n}

Discriminators == {Str("c.leaf"), Str("unknown.x"), Str("article"), Num(1)}

RECURSIVE recordsOver(_, _, _)
RECURSIVE valuesFor(_, _)

\* the records a schema's attributes (non-writable ones included) can be sent with
recordsOf(m, d) == {Obj(o) : o \in recordsOver(m.attributes, DOMAIN m.attributes, d)}

dzEntries(d) ==
    {Null, Obj(EmptyMap)}
    \cup {Obj(("__component" :> Str("c.leaf")) @@ r.o) : r \in recordsOf(components["c.leaf"], 0)}
    \cup {Obj(("__component" :> disc) @@ o) :
             disc \in Discriminators \ {Str("c.leaf")}, o \in {EmptyMap, "name" :> Null}}

valuesFor(attr, d) ==
    IF isMedia(attr) THEN {Null, Num(1)}
    ELSE IF isSimpleAttribute(attr) THEN {Null, Str("a"), Num(1)}
    ELSE IF attr.type = "component"
    THEN LET m == getModelsByAttribute(attr)
             entries == IF ~IsModel(m) THEN {Obj(EmptyMap)}
                        ELSE IF d = 0 THEN {} ELSE recordsOf(m, d - 1)
         IN  IF attr.repeatable
             THEN {Null} \cup {Arr(q) : q \in SeqsUpTo(entries \cup {Null}, MaxLen)}
             ELSE {Null, Str("a")} \cup entries
    ELSE IF attr.type = "dynamiczone"
    THEN {Null} \cup {Arr(q) : q \in SeqsUpTo(dzEntries(d), MaxLen)}
    ELSE IF attr.collection # "" THEN {Null, Num(1), Arr(<<Num(1)>>)}
    ELSE {Null, Num(1)}

recordsOver(attributes, keys, d) ==
    IF keys = {} THEN {EmptyMap}
    ELSE LET k == CHOOSE k \in keys : TRUE
             rest == recordsOver(attributes, keys \ {k}, d)
         IN  rest \cup {(k :> v) @@ r : v \in valuesFor(attributes[k], d), r \in rest}

(* ---------------------------- entry points ----------------------------- *)
NoValidator == [type |-> "none"]

Init ==
    /\ pc = "idle"
    /\ createOrUpdate = ""
    /\ model = ""
    /\ data = Undefined
    /\ isDraft = FALSE
    /\ validator = NoValidator
    /\ caught = "none"
    /\ result = Undefined
    /\ errors = {}
    /\ outcome = [kind |-> "pending", message |-> "", errors |-> {}]

\* createValidateEntity up to its await: the validator tree is built
createValidateEntity(mode, m, d, draft) ==
    /\ pc' = "awaiting"
    /\ createOrUpdate' = mode
    /\ model' = m
    /\ data' = d
    /\ isDraft' = draft
    /\ validator' = required(createModelValidator(mode, models[m], d, draft, 0))
    /\ UNCHANGED <<caught, result, errors, outcome>>

validateEntityCreation ==
    /\ pc = "idle"
    /\ \E m \in DOMAIN models : \E d \in recordsOf(models[m], MaxDepth) : \E draft \in BOOLEAN :
           createValidateEntity("creation", m, d, draft)

validateEntityUpdate ==
    /\ pc = "idle"
    /\ \E m \in DOMAIN models : \E d \in recordsOf(models[m], MaxDepth) : \E draft \in BOOLEAN :
           createValidateEntity("update", m, d, draft)

\* what the try block throws: a failure inside a lazy builder, a ValidationError, or nothing
thrownBy(inner) ==
    IF \E x \in inner : x.type \in {"Error", "RangeError"}
    THEN (CHOOSE x \in inner : x.type \in {"Error", "RangeError"}).type
    ELSE IF inner # {} THEN "ValidationError" ELSE "none"

\* e.inner of the thrown error under the options of the validate call
innerErrors(e, inner) ==
    IF e # "ValidationError" THEN {}
    ELSE IF validateOptions.abortEarly THEN {CHOOSE x \in inner : TRUE}
    ELSE inner

\* the return of the try block, or the catch block around it
tryCatch(c, e, reported) ==
    [caught |-> e,
     errors |-> reported,
     result |-> IF e = "none" THEN c ELSE Undefined,
     outcome |-> IF e = "none"
                 THEN [kind |-> "record", message |-> "", errors |-> {}]
                 ELSE formatYupErrors(e, reported)]

\* the errors of validating the cast value
validated(v, c, ctx) == IF c.t = "throw" THEN {Err(<<>>, c.e)} ELSE validate(v, c, <<>>, ctx)

afterValidate(c, inner) == tryCatch(c, thrownBy(inner), innerErrors(thrownBy(inner), inner))

\* the rest of createValidateEntity: validate, and the catch block around it
settled(v, d, ctx) == afterValidate(cast(v, d, ctx), validated(v, cast(v, d, ctx), ctx))

\* the awaited validation settles: the normalized record, or the catch block's error
Settle ==
    /\ pc = "awaiting"
    /\ \E r \in {settled(validator, data, [mode |-> createOrUpdate, draft |-> isDraft])} :
           /\ caught' = r.caught
           /\ errors' = r.errors
           /\ result' = r.result
           /\ outcome' = r.outcome
    /\ pc' = "settled"
    /\ UNCHANGED <<createOrUpdate, model, data, isDraft, validator>>

Next == validateEntityCreation \/ validateEntityUpdate \/ Settle

Spec == Init /\ [][Next]_vars


(* ------------------------- claim vocabulary ---------------------------- *)
Settled == pc = "settled"

\* the schema of the call and its writable attributes
Schema == models[model]
Writable(m) == DOMAIN m.attributes \ m.nonWritable
Sent(a) == a \in DOMAIN data.o
Ctx == [mode |-> createOrUpdate, draft |-> isDraft]

\* an error entry is reported for the attribute itself / somewhere at or below it
ErrorOn(a) == <<a>> \in outcome.errors
ErrorUnder(a) == \E p \in outcome.errors : Len(p) >= 1 /\ p[1] = a

IsCollectionAttr(attr) == (attr.type = "component" /\ attr.repeatable) \/ attr.type = "dynamiczone"
Declared(attr) == attr.default.t # "undefined"

(* ------------------------------- C1 ------------------------------------ *)
\* C1: whenever a call returns a record, every writable attribute the record omitted holds, in
\* creation mode, the descriptor's declared default (an empty array for a repeatable component
\* or dynamic zone that is not required) and, in update mode, nothing at all.
C1_DefaultsByMode ==
    (Settled /\ outcome.kind = "record") =>
        \A a \in Writable(Schema) :
            ~Sent(a) =>
                LET attr == Schema.attributes[a]
                IN  IF createOrUpdate = "creation"
                    THEN Get(result, a) = (IF IsCollectionAttr(attr) /\ ~attr.required
                                           THEN Arr(<<>>) ELSE attr.default)
                    ELSE Get(result, a).t = "undefined"

C1_Witness ==
    /\ Settled /\ outcome.kind = "record" /\ createOrUpdate = "creation" /\ model = "article"
    /\ ~Sent("summary") /\ ~Sent("name")
    /\ Get(result, "summary") = Str("s") /\ Get(result, "name") = Str("x")

(* ------------------------------- C2 ------------------------------------ *)
NonWritableNames == UNION {m.nonWritable : m \in {models[k] : k \in DOMAIN models}
                                                 \cup {components[k] : k \in DOMAIN components}}

RECURSIVE fieldNames(_)
\* the attribute names a built validator tree holds a validator for
fieldNames(node) ==
    IF node.type # "object" THEN {}
    ELSE DOMAIN node.fields \cup UNION {fieldNames(node.fields[k]) : k \in DOMAIN node.fields}

\* the names the element validators of the arrays of the record hold a validator for
entryFieldNames ==
    UNION {LET node == validator.fields[a]
               v == Get(data, a)
           IN  IF node.type = "array" /\ v.t = "array" /\ node.of.lazy # "none"
               THEN UNION {LET item == resolveLazy(node.of, v.a[i], Ctx)
                           IN  IF IsThrow(item) THEN {} ELSE fieldNames(item) : i \in 1..Len(v.a)}
               ELSE {} : a \in DOMAIN validator.fields}

\* C2: no validator is built for a non-writable attribute of the top-level schema, of a component
\* schema or of a dynamic-zone entry schema, and no reported error path names such an attribute.
C2_NonWritableExcluded ==
    /\ (pc # "idle" /\ ~IsThrow(validator)) =>
           /\ fieldNames(validator) \cap NonWritableNames = {}
           /\ entryFieldNames \cap NonWritableNames = {}
    /\ Settled => \A p \in outcome.errors : \A i \in 1..Len(p) : p[i] \notin NonWritableNames

C2_Witness ==
    /\ Settled /\ model = "zone" /\ createOrUpdate = "creation" /\ ~isDraft
    /\ Get(data, "body") = Arr(<<Obj(("__component" :> Str("c.leaf")) @@ ("name" :> Str("a"))
                                     @@ ("created_by" :> Null))>>)
    /\ outcome.kind = "record"

(* ------------------------------- C3 ------------------------------------ *)
RequiredSimple(attr) == isSimpleAttribute(attr) /\ attr.required
OmittedOrNull(a) == Get(data, a).t \in {"undefined", "null"}

\* the draft half of C3: a draft may omit a required simple attribute or send it as null
DraftSuppressesRequired ==
    (Settled /\ isDraft) =>
        \A a \in Writable(Schema) :
            (RequiredSimple(Schema.attributes[a]) /\ OmittedOrNull(a)) => ~ErrorOn(a)

\* C3 as stated: a draft passes where the same record, not a draft, is rejected in creation mode.
C3_AsStated ==
    /\ DraftSuppressesRequired
    /\ (Settled /\ ~isDraft /\ createOrUpdate = "creation") =>
           \A a \in Writable(Schema) :
               (RequiredSimple(Schema.attributes[a]) /\ OmittedOrNull(a)) =>
                   (outcome.kind = "badRequest" /\ ErrorOn(a))

\* C3 amended: the non-draft creation call is rejected when the attribute is null, or is omitted
\* and declares no default.
C3_DraftSuppressesRequired ==
    /\ DraftSuppressesRequired
    /\ (Settled /\ ~isDraft /\ createOrUpdate = "creation") =>
           \A a \in Writable(Schema) :
               (RequiredSimple(Schema.attributes[a]) /\ OmittedOrNull(a)
                /\ (Sent(a) \/ ~Declared(Schema.attributes[a]))) =>
                   (outcome.kind = "badRequest" /\ ErrorOn(a))

C3_Witness ==
    /\ Settled /\ isDraft /\ model = "article" /\ ~Sent("title") /\ Get(data, "name") = Null
    /\ outcome.kind = "record"

(* ------------------------------- C4 ------------------------------------ *)
\* the parts of C4 that hold of every attribute the claim names
C4_Required(a, attr) ==
    /\ (createOrUpdate = "creation" /\ ~Sent(a)) => (outcome.kind # "record" /\ (outcome.kind = "badRequest" => ErrorOn(a)))
    /\ (createOrUpdate = "update" /\ ~Sent(a)) =>
           (~ErrorUnder(a) /\ (outcome.kind = "record" => Get(result, a).t = "undefined"))
    /\ (createOrUpdate = "update" /\ Get(data, a) = Null) =>
           (outcome.kind # "record" /\ (outcome.kind = "badRequest" => ErrorOn(a)))

C5_CollectionNeverNull ==
    Settled =>
        \A a \in Writable(Schema) :
            LET attr == Schema.attributes[a]
            IN  IsCollectionAttr(attr) =>
                    /\ Get(data, a) = Null =>
                           (outcome.kind # "record" /\ (outcome.kind = "badRequest" => ErrorOn(a)))
                    /\ (~Sent(a) /\ outcome.kind = "record") =>
                           IF createOrUpdate = "creation" /\ ~attr.required
                           THEN Get(result, a) = Arr(<<>>)
                           ELSE Get(result, a).t = "undefined"

C5_Witness ==
    /\ Settled /\ model = "zone2" /\ isDraft /\ createOrUpdate = "update"
    /\ Get(data, "blocks") = Null
    /\ outcome.kind = "badRequest" /\ ErrorOn("blocks")

(* ------------------------------- C6 ------------------------------------ *)
\* the top-level attributes whose own validator rejects the value the record holds for them
FailingAttrs ==
    LET c == cast(validator, data, Ctx)
    IN  IF IsThrow(validator) \/ c.t = "throw" THEN {}
        ELSE {a \in DOMAIN validator.fields :
                 validate(validator.fields[a], Get(c, a), <<a>>, Ctx) # {}}

RECURSIVE reachesUnresolved(_, _, _)
\* whether building and running the validator of the schema over the record comes to a component
\* attribute whose target schema the registry does not hold
reachesUnresolved(m, d, fuel) ==
    \E a \in Writable(m) :
        LET attr == m.attributes[a]
            target == getModelsByAttribute(attr)
            v == Get(d, a)
        IN  /\ attr.type = "component"
            /\ \/ ~IsModel(target)
               \/ /\ IsModel(target) /\ fuel > 0
                  /\ IF attr.repeatable
                     THEN v.t = "array" /\ \E i \in 1..Len(v.a) : reachesUnresolved(target, v.a[i], fuel - 1)
                     ELSE reachesUnresolved(target, v, fuel - 1)

C8_ConstructionTerminates ==
    /\ pc # "idle" => ~(IsThrow(validator) /\ validator.error = "RangeError")
    /\ Settled => caught # "RangeError"

(* ------------------------------- C9 ------------------------------------ *)
OptionalWithMin(attr) ==
    attr.type = "component" /\ attr.repeatable /\ ~attr.required /\ IsInteger(attr.min)

\* C9 as stated: in creation mode an empty array sent for a repeatable component that is not
\* required and has min 1 fails with a minimum-length error on the attribute.
C9_AsStated ==
    (Settled /\ createOrUpdate = "creation") =>
        \A a \in Writable(Schema) :
            (OptionalWithMin(Schema.attributes[a]) /\ Schema.attributes[a].min = Num(1)
             /\ Get(data, a) = Arr(<<>>)) =>
                (outcome.kind = "badRequest" /\ Err(<<a>>, "min") \in errors)

\* C9 amended: that empty array passes with no error on the attribute; the minimum is enforced
\* only on a non-empty array.
C9_EmptyArrayPassesMin ==
    (Settled /\ createOrUpdate = "creation") =>
        \A a \in Writable(Schema) :
            LET attr == Schema.attributes[a]
                v == Get(data, a)
            IN  OptionalWithMin(attr) =>
                    /\ v = Arr(<<>>) => ~ErrorUnder(a)
                    /\ (v.t = "array" /\ Len(v.a) > 0) =>
                           (Err(<<a>>, "min") \in errors <=> Len(v.a) < attr.min.n)

C9_Witness ==
    /\ Settled /\ createOrUpdate = "creation" /\ model = "page" /\ ~isDraft
    /\ Get(data, "tags") = Arr(<<>>)
    /\ outcome.kind = "record" /\ Get(result, "tags") = Arr(<<>>)

(* ------------------------------- C10 ----------------------------------- *)
\* the error entries at or below entry i (counted from 0) of the array attribute a
EntryErrors(a, i) ==
    {p \in outcome.errors : Len(p) >= 2 /\ p[1] = a /\ p[2] = ToString(i - 1)}

\* C10: of every entry of a dynamic zone: it passes only when it is an object whose __component
\* is a string naming a registered component; when the discriminator resolves to no schema the
\* entry's validator holds the discriminator alone and the entry fails on it; when it resolves,
\* the validator also holds the schema's writable attributes and their errors are reported.
C10_DiscriminatedUnion ==
    (Settled /\ outcome.kind # "Error") =>
        \A a \in Writable(Schema) :
            (Schema.attributes[a].type = "dynamiczone" /\ Get(data, a).t = "array") =>
                \A i \in 1..Len(Get(data, a).a) :
                    LET item == Get(data, a).a[i]
                        disc == Get(item, "__component")
                        m == getModel(disc)
                        node == resolveLazy(validator.fields[a].of, item, Ctx)
                        path == <<a, ToString(i - 1)>>
                    IN  /\ EntryErrors(a, i) = {} =>
                               (item.t = "object" /\ disc.t = "string" /\ disc.s \in DOMAIN components)
                        /\ (item.t = "object" /\ ~IsModel(m)) =>
                               /\ DOMAIN node.fields = {"__component"}
                               /\ EntryErrors(a, i) = {Append(path, "__component")}
                        /\ (item.t = "object" /\ IsModel(m)) =>
                               /\ Writable(m) \cup {"__component"} = DOMAIN node.fields
                               /\ \A k \in Writable(m) :
                                      \A e \in validate(node.fields[k],
                                                        Get(cast(node, item, Ctx), k),
                                                        Append(path, k), Ctx) :
                                          e.path \in EntryErrors(a, i)

C10_Witness ==
    /\ Settled /\ model = "zone"
    /\ Get(data, "body") = Arr(<<Obj("__component" :> Str("unknown.x"))>>)
    /\ outcome.kind = "badRequest"
    /\ outcome.errors = {<<"body", "0", "__component">>}

====
